---- MODULE Spec2Model ----
(***************************************************************************)
(* Model of optimize_budget_with_weighted_quadratic_loss_custom_units      *)
(* (src/csp-solver-v4.ipynb).  The caller owns a mapping                   *)
(* current_allocations; every call derives total_needs / total_wants,      *)
(* writes them into that mapping, computes the weights, builds a CP-SAT    *)
(* model and returns (result, loss) or (None, None).                       *)
(***************************************************************************)
EXTENDS Integers, Sequences, FiniteSets, TLC

VARIABLES current_allocations, scale, returned, pc

vars == <<current_allocations, scale, returned, pc>>

(* ---------------------------------------------------------------------- *)
(* Bounds of the explored inputs                                           *)
(* ---------------------------------------------------------------------- *)
MaxIncomeUnits == 4
MaxCurUnits == 2
MaxCalls == 2

(* ---------------------------------------------------------------------- *)
(* Program constants                                                       *)
(* ---------------------------------------------------------------------- *)
TransportFactor == 10
DefaultFactor == 50
DefaultScale == 1000
RefIncome == 4000
RefTransport == 100
RefFood == 100
RefHousing == 1000
RefInsurance == 100
RefOtherNeeds == 700
RefInvestment == 300
RefSavings == 700

(* ---------------------------------------------------------------------- *)
(* Small arithmetic helpers                                                *)
(* ---------------------------------------------------------------------- *)
Max(a, b) == IF a >= b THEN a ELSE b

SetMin(S) == CHOOSE x \in S : \A y \in S : x <= y

RECURSIVE SeqSum(_)
SeqSum(s) == IF s = <<>> THEN 0 ELSE Head(s) + SeqSum(Tail(s))

(* dict.get(key, 0) *)
Get(m, k) == IF k \in DOMAIN m THEN m[k] ELSE 0

(* ---------------------------------------------------------------------- *)
(* categories, factors                                                     *)
(* ---------------------------------------------------------------------- *)
categories ==
  << "transport_expenditure", "food_expenditure", "housing_expenditure",
     "insurance_expenditure", "other_needs_expenditure",
     "investment_expenditure", "monthly_savings", "total_needs",
     "total_wants" >>

needs_categories ==
  << "transport_expenditure", "food_expenditure", "housing_expenditure",
     "insurance_expenditure", "other_needs_expenditure" >>

CategorySet == {categories[i] : i \in DOMAIN categories}

(* faulty variant: every category stepped like transport                   *)
factors_all_transport(cat) == TransportFactor

factors(cat) ==
  IF cat = "transport_expenditure" THEN TransportFactor ELSE DefaultFactor

income_of(m) == Get(m, "monthly_take_home")

(* ---------------------------------------------------------------------- *)
(* Derived current totals, written into the caller's mapping               *)
(* ---------------------------------------------------------------------- *)
current_total_needs(m) ==
  SeqSum([i \in DOMAIN needs_categories |-> Get(m, needs_categories[i])])

(* faulty variant: the savings are not subtracted                          *)
current_total_wants_no_savings(m) == income_of(m) - current_total_needs(m)

(* faulty variant: the needs total is read from the mapping's own entry    *)
current_total_wants_from_entry(m) ==
  income_of(m) - Get(m, "total_needs") - Get(m, "monthly_savings")

current_total_wants(m) ==
  income_of(m) - current_total_needs(m) - Get(m, "monthly_savings")

WithTotals(m) ==
  [k \in DOMAIN m \cup {"total_needs", "total_wants"} |->
     IF k = "total_needs" THEN current_total_needs(m)
     ELSE IF k = "total_wants" THEN current_total_wants(m)
     ELSE m[k]]

(* ---------------------------------------------------------------------- *)
(* weights                                                                 *)
(* ---------------------------------------------------------------------- *)
(* int(round(n / d)) for n >= 0, d > 0: Python rounds halves to even.      *)
RoundDiv(n, d) ==
  LET q == n \div d
      r == n % d
  IN  IF 2 * r < d THEN q
      ELSE IF 2 * r > d THEN q + 1
      ELSE IF q % 2 = 0 THEN q ELSE q + 1

(* scale / (current_val + 1) raises ZeroDivisionError                      *)
DivisionByZero(m) == \E cat \in CategorySet : Get(m, cat) + 1 = 0

(* max(1, int(round(scale / (current_val + 1)))); a negative denominator   *)
(* gives a quotient <= 0 for scale >= 0, hence the minimum weight 1.       *)
weights(m, sc, cat) ==
  LET d == Get(m, cat) + 1
  IN  IF d > 0 THEN Max(1, RoundDiv(sc, d)) ELSE 1

(* ---------------------------------------------------------------------- *)
(* Decision variables of the CP-SAT model                                  *)
(* ---------------------------------------------------------------------- *)
(* unit_vars[cat] = NewIntVar(0, income // factor)                         *)
max_units(m, cat) == income_of(m) \div factors(cat)

(* faulty variant: unit variables start at 1                               *)
AllocValuesFromOne(m, cat) ==
  {a \in {factors(cat) * u : u \in 1 .. max_units(m, cat)} :
     0 <= a /\ a <= income_of(m)}

(* alloc_vars[cat] = NewIntVar(0, income) with alloc == unit * factor      *)
AllocValues(m, cat) ==
  {a \in {factors(cat) * u : u \in 0 .. max_units(m, cat)} :
     0 <= a /\ a <= income_of(m)}

(* dev = NewIntVar(-income, income) with dev == alloc - current_val        *)
DevInDomain(m, cat, a) ==
  /\ - income_of(m) <= a - Get(m, cat)
  /\ a - Get(m, cat) <= income_of(m)

(* quad = NewIntVar(0, income**2) with quad == dev * dev                   *)
QuadInDomain(m, cat, a) ==
  /\ 0 <= (a - Get(m, cat)) * (a - Get(m, cat))
  /\ (a - Get(m, cat)) * (a - Get(m, cat)) <= income_of(m) * income_of(m)

(* a value of AllocValues(m, cat), tested without enumerating the domain   *)
IsAllocValue(m, cat, a) ==
  /\ a % factors(cat) = 0
  /\ 0 <= a \div factors(cat) /\ a \div factors(cat) <= max_units(m, cat)
  /\ 0 <= a /\ a <= income_of(m)

(* the values one category's four variables admit on their own             *)
Admits(m, cat, a) ==
  IsAllocValue(m, cat, a) /\ DevInDomain(m, cat, a) /\ QuadInDomain(m, cat, a)

Admissible(m, cat) ==
  {a \in AllocValues(m, cat) : DevInDomain(m, cat, a) /\ QuadInDomain(m, cat, a)}

(* weights[cat] * quad                                                     *)
weighted_term(m, sc, cat, a) ==
  weights(m, sc, cat) * ((a - Get(m, cat)) * (a - Get(m, cat)))

(* ---------------------------------------------------------------------- *)
(* Budget constraints                                                      *)
(* ---------------------------------------------------------------------- *)
(* int(0.2 * income), int(0.5 * income), int(0.3 * income), income >= 0    *)
savings_floor(inc) == (2 * inc) \div 10
needs_ceiling(inc) == (5 * inc) \div 10
(* faulty variant: the wants ceiling taken at 0.5 of the income            *)
wants_ceiling_half(inc) == (5 * inc) \div 10

wants_ceiling(inc) == (3 * inc) \div 10

SavingsBound(m, s) == s >= savings_floor(income_of(m))
NeedsBound(m, tn) == tn <= needs_ceiling(income_of(m))
WantsBound(m, tw) == tw <= wants_ceiling(income_of(m))

(* total_needs + total_wants + monthly_savings == income, solved for       *)
(* total_wants                                                             *)
WantsFromBalance(m, tn, s) == income_of(m) - tn - s

(* faulty variant: a needs category left out of the needs balance          *)
NeedsRemainderKept(total, a) == total

(* sum of the needs allocations == total_needs, solved for the first       *)
(* needs category once the others are chosen                               *)
NeedsRemainder(total, a) == total - a

(* ---------------------------------------------------------------------- *)
(* solver.Solve(model): with no time limit CP-SAT ends OPTIMAL with an     *)
(* assignment of least objective, or INFEASIBLE.  The search below lists   *)
(* every assignment of least objective.  The objective is a sum of one     *)
(* term per category, so a least assignment restricted to the needs        *)
(* categories is least among the assignments with the same needs total.    *)
(* ---------------------------------------------------------------------- *)
Cheapest(S, cost(_)) ==
  IF S = {} THEN {}
  ELSE LET least == SetMin({cost(p) : p \in S})
       IN  {p \in S : cost(p) = least}

(* the sums a needs total can take: the values of alloc_vars[total_needs]  *)
(* the needs ceiling allows, in steps of the finest factor                 *)
NeedsSums(m) ==
  {t \in {TransportFactor * u : u \in 0 .. max_units(m, "transport_expenditure")} :
     NeedsBound(m, t)}

NoSplit == [cost |-> 0, splits |-> {}]

(* NeedsTable(m, sc, k)[total]: the allocations <<a_1 .. a_k>> of the      *)
(* first k needs categories with a_1 + ... + a_k = total whose weighted    *)
(* terms sum to the least value, and that value                            *)
(* (f @@ <<>> is f as an explicit function, each entry computed once)      *)
RECURSIVE NeedsTable(_, _, _)
NeedsTable(m, sc, k) ==
  IF k = 1
  THEN [total \in NeedsSums(m) |->
          IF Admits(m, needs_categories[1], total)
          THEN [cost |-> weighted_term(m, sc, needs_categories[1], total),
                splits |-> {<<total>>}]
          ELSE NoSplit] @@ <<>>
  ELSE LET cat == needs_categories[k]
           prev == NeedsTable(m, sc, k - 1)
           own == Admissible(m, cat)
       IN  [total \in NeedsSums(m) |->
              LET rest(a) == prev[NeedsRemainder(total, a)]
                  opts == {a \in own : a <= total /\ rest(a).splits # {}}
                  cost(a) == rest(a).cost + weighted_term(m, sc, cat, a)
                  best == Cheapest(opts, cost)
              IN  IF best = {} THEN NoSplit
                  ELSE [cost |-> cost(CHOOSE a \in best : TRUE),
                        splits |-> UNION {{Append(p, a) : p \in rest(a).splits} :
                                            a \in best}]] @@ <<>>

Assignment(needs, inv, s, tn, tw) ==
  [cat \in CategorySet |->
     IF cat = "investment_expenditure" THEN inv
     ELSE IF cat = "monthly_savings" THEN s
     ELSE IF cat = "total_needs" THEN tn
     ELSE IF cat = "total_wants" THEN tw
     ELSE needs[CHOOSE i \in DOMAIN needs_categories : needs_categories[i] = cat]]

(* sum(weighted_quad_terms), the terms of the needs categories already    *)
(* summed in needsCost                                                     *)
Objective(m, sc, needsCost, inv, s, tn, tw) ==
  needsCost + weighted_term(m, sc, "investment_expenditure", inv)
    + weighted_term(m, sc, "monthly_savings", s)
    + weighted_term(m, sc, "total_needs", tn)
    + weighted_term(m, sc, "total_wants", tw)

(* the assignments of least objective among those meeting every            *)
(* constraint; empty when the model is infeasible.  investment appears in  *)
(* no linear constraint, so only its least-term values are paired with     *)
(* the totals.                                                             *)
Solutions(m, sc) ==
  LET needsFor == NeedsTable(m, sc, 5)
      invs == LET cost(a) == weighted_term(m, sc, "investment_expenditure", a)
              IN  Cheapest(Admissible(m, "investment_expenditure"), cost)
      totals == {t \in Admissible(m, "total_needs") \X Admissible(m, "monthly_savings") :
                   /\ NeedsBound(m, t[1])
                   /\ SavingsBound(m, t[2])
                   /\ Admits(m, "total_wants", WantsFromBalance(m, t[1], t[2]))
                   /\ WantsBound(m, WantsFromBalance(m, t[1], t[2]))
                   /\ needsFor[t[1]].splits # {}}
      cost(t) == Objective(m, sc, needsFor[t[1]].cost, CHOOSE inv \in invs : TRUE,
                           t[2], t[1], WantsFromBalance(m, t[1], t[2]))
  IN  IF invs = {} THEN {}
      ELSE UNION {{Assignment(p, inv, t[2], t[1], WantsFromBalance(m, t[1], t[2])) :
                     p \in needsFor[t[1]].splits, inv \in invs} :
                  t \in Cheapest(totals, cost)}

(* faulty variant: the weights left out of the returned loss               *)
unweighted_quad_loss(m, sc, a) ==
  SeqSum([i \in DOMAIN categories |->
            (a[categories[i]] - Get(m, categories[i]))
              * (a[categories[i]] - Get(m, categories[i]))])

(* sum(solver.Value(quad_vars[cat]) * weights[cat] for cat in categories)  *)
total_weighted_quad_loss(m, sc, a) ==
  SeqSum([i \in DOMAIN categories |->
            ((a[categories[i]] - Get(m, categories[i]))
               * (a[categories[i]] - Get(m, categories[i])))
              * weights(m, sc, categories[i])])

(* ---------------------------------------------------------------------- *)
(* Inputs: the caller's mapping and the scale                              *)
(* ---------------------------------------------------------------------- *)
OddIncome == DefaultFactor + DefaultFactor \div 2

Incomes == {DefaultFactor * k : k \in 0 .. MaxIncomeUnits} \cup {OddIncome}

CurSteps == {DefaultFactor * k : k \in 0 .. MaxCurUnits}

Scales == {5, DefaultScale}

(* mappings with small values: insurance_expenditure and                   *)
(* other_needs_expenditure are absent keys, read as 0                      *)
SmallInputs ==
  { [monthly_take_home |-> inc, transport_expenditure |-> tr,
     food_expenditure |-> fo, housing_expenditure |-> ho,
     investment_expenditure |-> iv, monthly_savings |-> sv] :
      inc \in Incomes, tr \in {0, TransportFactor}, fo \in CurSteps,
      ho \in {0, DefaultFactor}, iv \in {0, 2 * DefaultFactor + 1},
      sv \in CurSteps \cup {1, DefaultFactor + 1} }

(* entries for total_needs / total_wants left in the mapping by the caller *)
StaleTotals == [total_needs |-> DefaultFactor, total_wants |-> 2 * DefaultFactor]

(* the mapping of the example usage; the boolean entries, which the        *)
(* function never reads, are left out                                      *)
ReferenceInput ==
  [age |-> 30, number_of_kids |-> 1, monthly_take_home |-> RefIncome,
   transport_expenditure |-> RefTransport, food_expenditure |-> RefFood,
   housing_expenditure |-> RefHousing, insurance_expenditure |-> RefInsurance,
   other_needs_expenditure |-> RefOtherNeeds, emergency_funds |-> 6000,
   investment_expenditure |-> RefInvestment, monthly_savings |-> RefSavings]

Init ==
  /\ \/ /\ current_allocations \in SmallInputs \cup {m @@ StaleTotals : m \in SmallInputs}
        /\ scale \in Scales
     \/ /\ current_allocations = ReferenceInput
        /\ scale = DefaultScale
  /\ returned = <<>>
  /\ pc = "ready"

(* ---------------------------------------------------------------------- *)
(* One call of optimize_budget_with_weighted_quadratic_loss_custom_units   *)
(* on the caller's mapping                                                 *)
(* ---------------------------------------------------------------------- *)
CanCall == pc = "ready" /\ Len(returned) < MaxCalls

(* the weight loop divides by zero: ZeroDivisionError leaves the function  *)
(* after the totals were written into the mapping                          *)
OptimizeRaises ==
  /\ CanCall
  /\ DivisionByZero(WithTotals(current_allocations))
  /\ current_allocations' = WithTotals(current_allocations)
  /\ pc' = "raised"
  /\ UNCHANGED <<scale, returned>>

(* status OPTIMAL: return result, total_weighted_quad_loss                 *)
OptimizeReturnsAllocation ==
  /\ CanCall
  /\ ~ DivisionByZero(WithTotals(current_allocations))
  /\ \E a \in Solutions(WithTotals(current_allocations), scale) :
       returned' = Append(returned,
                          [kind |-> "allocation", result |-> a,
                           loss |-> total_weighted_quad_loss(
                                      WithTotals(current_allocations), scale, a)])
  /\ current_allocations' = WithTotals(current_allocations)
  /\ UNCHANGED <<scale, pc>>

(* any other status: return None, None                                     *)
OptimizeReturnsNone ==
  /\ CanCall
  /\ ~ DivisionByZero(WithTotals(current_allocations))
  /\ Solutions(WithTotals(current_allocations), scale) = {}
  /\ returned' = Append(returned, [kind |-> "none"])
  /\ current_allocations' = WithTotals(current_allocations)
  /\ UNCHANGED <<scale, pc>>

Next == OptimizeRaises \/ OptimizeReturnsAllocation \/ OptimizeReturnsNone

Spec == Init /\ [][Next]_vars


(* ====================================================================== *)
(* Properties                                                              *)
(* ====================================================================== *)
(* The entry the caller supplied under key k (0 when absent); the seven    *)
(* supplied categories and the income are never rewritten by a call.       *)
In(k) == IF k \in DOMAIN current_allocations THEN current_allocations[k] ELSE 0

InIncome == In("monthly_take_home")

InNeeds ==
  In("transport_expenditure") + In("food_expenditure") + In("housing_expenditure")
    + In("insurance_expenditure") + In("other_needs_expenditure")

InWants == InIncome - InNeeds - In("monthly_savings")

(* the current value of a category as the claims define it                 *)
Current(cat) ==
  IF cat = "total_needs" THEN InNeeds
  ELSE IF cat = "total_wants" THEN InWants
  ELSE In(cat)

Step(cat) == IF cat = "transport_expenditure" THEN 10 ELSE 50

Allocations == {i \in DOMAIN returned : returned[i].kind = "allocation"}

Called == pc = "raised" \/ Len(returned) >= 1

(* C1: every returned allocation satisfies both balance equalities: the    *)
(* five needs allocations sum to total_needs, and total_needs +            *)
(* total_wants + monthly_savings equals monthly_take_home.                 *)
C1_BalanceEqualities ==
  \A i \in Allocations :
    LET r == returned[i].result
    IN  /\ r["transport_expenditure"] + r["food_expenditure"]
             + r["housing_expenditure"] + r["insurance_expenditure"]
             + r["other_needs_expenditure"] = r["total_needs"]
        /\ r["total_needs"] + r["total_wants"] + r["monthly_savings"] = InIncome

C1_Witness ==
  \E i \in Allocations :
    /\ returned[i].result["total_needs"] > 0
    /\ returned[i].result["monthly_savings"] > 0
    /\ returned[i].result["total_wants"] > 0

(* C2: every returned allocation satisfies the three ratio bounds:         *)
(* monthly_savings >= floor(0.2 income), total_needs <= floor(0.5 income)  *)
(* and total_wants <= floor(0.3 income).                                   *)
C2_RatioBounds ==
  \A i \in Allocations :
    LET r == returned[i].result
    IN  /\ 5 * r["monthly_savings"] + (InIncome % 5) >= InIncome
        /\ 2 * r["total_needs"] <= InIncome
        /\ 10 * r["total_wants"] <= 3 * InIncome

C2_Witness ==
  \E i \in Allocations :
    /\ InIncome > 0
    /\ returned[i].result["total_wants"] > 0
    /\ returned[i].result["total_needs"] > 0

(* C3: each of the nine returned values lies in [0, income] and is an      *)
(* exact multiple of its step: 10 for transport_expenditure, 50 for the    *)
(* other eight categories.                                                 *)
C3_StepMultiples ==
  \A i \in Allocations :
    /\ DOMAIN returned[i].result = CategorySet
    /\ \A cat \in CategorySet :
         LET v == returned[i].result[cat]
         IN  v \in 0 .. InIncome /\ v % Step(cat) = 0

C3_Witness ==
  \E i \in Allocations :
    \E cat \in CategorySet :
      /\ returned[i].result[cat] > 0
      /\ Current(cat) % Step(cat) # 0

(* round(n / d) to the nearest integer, halves to the even neighbour       *)
ClaimRound(n, d) ==
  LET up == (2 * n + d) \div (2 * d)
  IN  IF (2 * n + d) % (2 * d) = 0 /\ up % 2 = 1 THEN up - 1 ELSE up

ClaimWeight(cat) ==
  IF Current(cat) + 1 > 0 /\ ClaimRound(scale, Current(cat) + 1) > 1
  THEN ClaimRound(scale, Current(cat) + 1)
  ELSE 1

ClaimTerm(r, cat) ==
  ClaimWeight(cat) * (r[cat] - Current(cat)) * (r[cat] - Current(cat))

ClaimLoss(r) ==
  ClaimTerm(r, "transport_expenditure") + ClaimTerm(r, "food_expenditure")
    + ClaimTerm(r, "housing_expenditure") + ClaimTerm(r, "insurance_expenditure")
    + ClaimTerm(r, "other_needs_expenditure")
    + ClaimTerm(r, "investment_expenditure") + ClaimTerm(r, "monthly_savings")
    + ClaimTerm(r, "total_needs") + ClaimTerm(r, "total_wants")

(* C4: the returned loss is a non-negative integer equal to the sum over   *)
(* the nine categories of weight * (allocation - current)^2, with the      *)
(* currents of total_needs / total_wants derived from the input and        *)
(* weight = max(1, round(scale / (current + 1))).                          *)
C4_LossFormula ==
  \A i \in Allocations :
    /\ returned[i].loss >= 0
    /\ returned[i].loss = ClaimLoss(returned[i].result)

(* a returned loss to which a weight above 1, rounded from a half,         *)
(* contributes                                                             *)
C4_Witness ==
  \E i \in Allocations :
    /\ returned[i].loss > 0
    /\ \E cat \in CategorySet :
         /\ returned[i].result[cat] # Current(cat)
         /\ ClaimWeight(cat) > 1
         /\ (2 * scale) % (2 * (Current(cat) + 1)) = Current(cat) + 1


(* the input of the example usage                                          *)
IsReference ==
  /\ scale = 1000
  /\ InIncome = 4000
  /\ In("transport_expenditure") = 100 /\ In("food_expenditure") = 100
  /\ In("housing_expenditure") = 1000 /\ In("insurance_expenditure") = 100
  /\ In("other_needs_expenditure") = 700
  /\ In("investment_expenditure") = 300 /\ In("monthly_savings") = 700

(* C5: on the input of the example usage every call returns an allocation  *)
(* of loss 20000, and every allocation the solver may return (each of      *)
(* least loss) has monthly_savings 800, total_needs 2000 and total_wants   *)
(* 1200.                                                                   *)
C5_ReferenceRun ==
  (IsReference /\ Called) =>
     /\ pc # "raised"
     /\ \A i \in DOMAIN returned :
          /\ returned[i].kind = "allocation"
          /\ returned[i].loss = 20000
          /\ returned[i].result["monthly_savings"] = 800
          /\ returned[i].result["total_needs"] = 2000
          /\ returned[i].result["total_wants"] = 1200

C5_Witness ==
  /\ IsReference
  /\ Len(returned) >= 1
  /\ returned[1].kind = "allocation"
  /\ returned[1].loss = 20000
  /\ returned[1].result["housing_expenditure"] = 1000

(* some assignment of step multiples meets the variable domains, the       *)
(* deviation domains, both balance equalities and the three ratio bounds   *)
ClaimFeasible ==
  LET inc == InIncome
      D50 == {50 * u : u \in 0 .. (inc \div 50)}
      dev(cat, a) == - inc <= a - Current(cat) /\ a - Current(cat) <= inc
  IN  /\ inc >= 0
      /\ \E s \in D50, tn \in D50 :
           LET tw == inc - tn - s
           IN  /\ tw >= 0 /\ tw <= inc /\ tw % 50 = 0
               /\ dev("monthly_savings", s) /\ dev("total_needs", tn)
               /\ dev("total_wants", tw)
               /\ 5 * s + (inc % 5) >= inc /\ 2 * tn <= inc /\ 10 * tw <= 3 * inc
               /\ \E v \in D50 : dev("investment_expenditure", v)
               /\ \E f \in D50, h \in D50, i \in D50, o \in D50 :
                    LET t == tn - f - h - i - o
                    IN  /\ t >= 0 /\ t <= inc /\ t % 10 = 0
                        /\ dev("transport_expenditure", t)
                        /\ dev("food_expenditure", f)
                        /\ dev("housing_expenditure", h)
                        /\ dev("insurance_expenditure", i)
                        /\ dev("other_needs_expenditure", o)

LastIsNone ==
  pc # "raised" /\ Len(returned) >= 1 /\ returned[Len(returned)].kind = "none"

(* C6: a call returns (None, None), neither an allocation nor an           *)
(* exception, if and only if no assignment meets all constraints of the    *)
(* model.                                                                  *)
C6_NoneIffInfeasible ==
  Called => (LastIsNone <=> ~ ClaimFeasible)

Supplied ==
  {"transport_expenditure", "food_expenditure", "housing_expenditure",
   "insurance_expenditure", "other_needs_expenditure",
   "investment_expenditure", "monthly_savings"}

AllZeroReturned ==
  /\ pc # "raised"
  /\ \A i \in DOMAIN returned :
       /\ returned[i].kind = "allocation"
       /\ returned[i].loss = 0
       /\ \A cat \in CategorySet : returned[i].result[cat] = 0

(* C7 as stated, for the calls that raise nothing: with                    *)
(* monthly_take_home = 0 and non-negative supplied current allocations a   *)
(* call returns the allocation that is 0 in every category, with loss 0.   *)
C7_ZeroIncomeAnyCurrent ==
  (Called /\ pc # "raised" /\ InIncome = 0 /\ \A k \in Supplied : In(k) >= 0)
    => AllZeroReturned

(* C7, amended: with monthly_take_home = 0 and every supplied current      *)
(* allocation equal to 0 a call returns the allocation that is 0 in every  *)
(* category, with loss 0.                                                  *)
C7_ZeroIncomeZeroCurrent ==
  (Called /\ InIncome = 0 /\ \A k \in Supplied : In(k) = 0) => AllZeroReturned

C7_Witness ==
  /\ InIncome = 0 /\ \A k \in Supplied : In(k) = 0
  /\ Len(returned) >= 1
  /\ returned[1].kind = "allocation"
  /\ returned[1].loss = 0

(* C8: successive calls on the same mapping with the same scale have the   *)
(* same kind of outcome and the same loss, whatever total_needs /          *)
(* total_wants entries the mapping held before the first call and although *)
(* each call rewrites them.                                                *)
C8_ResolveSameLoss ==
  \A i \in DOMAIN returned : \A j \in DOMAIN returned :
    /\ returned[i].kind = returned[j].kind
    /\ returned[i].kind = "allocation" => returned[i].loss = returned[j].loss

(* two calls that returned different allocations of the same positive loss *)
C8_Witness ==
  /\ Len(returned) >= 2
  /\ returned[1].kind = "allocation" /\ returned[2].kind = "allocation"
  /\ returned[1].result # returned[2].result
  /\ returned[1].loss > 0
  /\ InNeeds > 0

(* C9: with a non-negative income and non-negative supplied current        *)
(* allocations no current value used in the weight formula, derived        *)
(* totals included, is -1, so no call divides by zero.                     *)
C9_NoDivisionByZero ==
  (InIncome >= 0 /\ \A k \in Supplied : In(k) >= 0) =>
     /\ pc # "raised"
     /\ Called => \A cat \in CategorySet : Current(cat) # -1

(* C10: every returned allocation deviates from the current value by at    *)
(* most the income in every category; and an input whose current           *)
(* total_needs exceeds income + floor(0.5 income), whose current           *)
(* total_wants is below -income, or which has a current value above        *)
(* 2 income makes every call return (None, None), also when the income is  *)
(* a positive multiple of 50 and the supplied values are non-negative (the *)
(* case stated here).                                                      *)
C10_DeviationWithinIncome ==
  /\ \A i \in Allocations : \A cat \in CategorySet :
       /\ returned[i].result[cat] - Current(cat) <= InIncome
       /\ Current(cat) - returned[i].result[cat] <= InIncome
  /\ ( /\ Called
       /\ InIncome > 0 /\ InIncome % 50 = 0 /\ \A k \in Supplied : In(k) >= 0
       /\ \/ InNeeds > InIncome + (InIncome \div 2)
          \/ InWants < - InIncome
          \/ \E cat \in CategorySet : Current(cat) > 2 * InIncome )
     => ( /\ pc # "raised"
          /\ \A i \in DOMAIN returned : returned[i].kind = "none" )

====
